---- MODULE Spec2Model ----
(***************************************************************************)
(* Sequence Explorer: the arithmetic / geometric sequence engine of        *)
(* app.py (arithmetic only) and "app (1).py" (arithmetic and geometric),   *)
(* together with the part of main() that validates the term count and      *)
(* calls the engine.                                                       *)
(*                                                                         *)
(* The engine computes on Python floats (the widgets are created with      *)
(* value=1.0 / value=2.0, so st.number_input returns float).  A float is   *)
(* modelled exactly: a finite IEEE-754 binary64 value is a dyadic rational *)
(* (-1)^neg * m * 2^e whose odd mantissa m has at most MantBits bits, and  *)
(* every operation is the exact operation followed by round-to-nearest-    *)
(* even.  Mantissas exceed the width of a TLC integer, so they are kept as *)
(* little-endian sequences of LimbBits-bit limbs.  The exponent range is   *)
(* not bounded: the inputs of the model stay far from overflow/underflow.  *)
(* Zero carries no sign: Python compares -0.0 and 0.0 equal, alone and in  *)
(* lists.                                                                  *)
(***************************************************************************)
EXTENDS Integers, Sequences, FiniteSets, TLC

\* ------------------------------------------------------------------------
\* Natural numbers of arbitrary size: little-endian limb sequences
\* ------------------------------------------------------------------------
LimbBits == 5 * 3
Base == 2 ^ LimbBits

RECURSIVE BNorm(_)
BNorm(x) ==
  IF x = << >> THEN << >>
  ELSE IF x[Len(x)] = 0 THEN BNorm(SubSeq(x, 1, Len(x) - 1)) ELSE x

RECURSIVE BFromNat(_)
BFromNat(k) ==
  IF k = 0 THEN << >> ELSE << k % Base >> \o BFromNat(k \div Base)

RECURSIVE BAddC(_, _, _)
BAddC(x, y, c) ==
  IF x = << >> /\ y = << >>
    THEN (IF c = 0 THEN << >> ELSE << c >>)
    ELSE LET a == IF x = << >> THEN 0 ELSE Head(x)
             b == IF y = << >> THEN 0 ELSE Head(y)
             s == a + b + c
             xt == IF x = << >> THEN << >> ELSE Tail(x)
             yt == IF y = << >> THEN << >> ELSE Tail(y)
         IN  << s % Base >> \o BAddC(xt, yt, s \div Base)

BAdd(x, y) == BAddC(x, y, 0)

\* x - y - c for x >= y + c
RECURSIVE BSubC(_, _, _)
BSubC(x, y, c) ==
  IF x = << >> THEN << >>
  ELSE LET b == IF y = << >> THEN 0 ELSE Head(y)
           yt == IF y = << >> THEN << >> ELSE Tail(y)
           d == Head(x) - b - c
       IN  IF d < 0 THEN << d + Base >> \o BSubC(Tail(x), yt, 1)
                    ELSE << d >> \o BSubC(Tail(x), yt, 0)

BSub(x, y) == BNorm(BSubC(x, y, 0))

\* -1, 0, 1 as x <, =, > y (normalised operands)
RECURSIVE BCmpFrom(_, _, _)
BCmpFrom(x, y, i) ==
  IF i = 0 THEN 0
  ELSE IF x[i] < y[i] THEN -1
  ELSE IF x[i] > y[i] THEN 1
  ELSE BCmpFrom(x, y, i - 1)

BCmp(x, y) ==
  IF Len(x) < Len(y) THEN -1
  ELSE IF Len(x) > Len(y) THEN 1
  ELSE BCmpFrom(x, y, Len(x))

\* x * k + c for 0 <= k, c <= Base
RECURSIVE BMulSmall(_, _, _)
BMulSmall(x, k, c) ==
  IF x = << >> THEN (IF c = 0 THEN << >> ELSE << c >>)
  ELSE LET s == Head(x) * k + c
       IN  << s % Base >> \o BMulSmall(Tail(x), k, s \div Base)

RECURSIVE BMul(_, _)
BMul(x, y) ==
  IF x = << >> \/ y = << >> THEN << >>
  ELSE BNorm(BAdd(BMulSmall(x, Head(y), 0), << 0 >> \o BMul(x, Tail(y))))

RECURSIVE BZeros(_)
BZeros(k) == IF k = 0 THEN << >> ELSE << 0 >> \o BZeros(k - 1)

\* x * 2^k
BShl(x, k) ==
  IF x = << >> THEN << >>
  ELSE BZeros(k \div LimbBits) \o BNorm(BMulSmall(x, 2 ^ (k % LimbBits), 0))

\* floor(y / 2^b) for b < LimbBits
RECURSIVE BShrBits(_, _)
BShrBits(y, b) ==
  IF y = << >> THEN << >>
  ELSE << (Head(y) \div (2 ^ b))
          + (IF Len(y) > 1
               THEN (y[2] % (2 ^ b)) * (2 ^ (LimbBits - b))
               ELSE 0) >>
       \o BShrBits(Tail(y), b)

\* floor(x / 2^k)
BShr(x, k) ==
  IF k \div LimbBits >= Len(x) THEN << >>
  ELSE BNorm(BShrBits(SubSeq(x, (k \div LimbBits) + 1, Len(x)),
                      k % LimbBits))

RECURSIVE NatBitLen(_)
NatBitLen(k) == IF k = 0 THEN 0 ELSE 1 + NatBitLen(k \div 2)

BBitLen(x) ==
  IF x = << >> THEN 0 ELSE LimbBits * (Len(x) - 1) + NatBitLen(x[Len(x)])

BBit(x, i) ==
  IF i \div LimbBits >= Len(x) THEN 0
  ELSE (x[(i \div LimbBits) + 1] \div (2 ^ (i % LimbBits))) % 2

\* long division, one bit of x at a time from the top: <<quotient, remainder>>.
\* BDivBits consumes bits j..0 of limb i, BDivLimbs the limbs i..1.
RECURSIVE BDivBits(_, _, _, _, _)
BDivBits(x, y, i, j, qr) ==
  IF j < 0 THEN qr
  ELSE LET r2 == BMulSmall(qr[2], 2, (x[i] \div (2 ^ j)) % 2)
       IN  IF BCmp(r2, y) >= 0
             THEN BDivBits(x, y, i, j - 1,
                           << BMulSmall(qr[1], 2, 1), BSub(r2, y) >>)
             ELSE BDivBits(x, y, i, j - 1, << BMulSmall(qr[1], 2, 0), r2 >>)

RECURSIVE BDivLimbs(_, _, _, _)
BDivLimbs(x, y, i, qr) ==
  IF i = 0 THEN qr
  ELSE BDivLimbs(x, y, i - 1, BDivBits(x, y, i, LimbBits - 1, qr))

BDivMod(x, y) == BDivLimbs(x, y, Len(x), << << >>, << >> >>)

RECURSIVE NatTrailingZeros(_)
NatTrailingZeros(k) == IF k % 2 = 1 THEN 0 ELSE 1 + NatTrailingZeros(k \div 2)

\* number of trailing zero bits of x > 0
RECURSIVE BTrailingZeros(_)
BTrailingZeros(x) ==
  IF Head(x) = 0 THEN LimbBits + BTrailingZeros(Tail(x))
  ELSE NatTrailingZeros(Head(x))

\* ------------------------------------------------------------------------
\* Exact dyadic rationals (-1)^neg * m * 2^e, m odd or the number is Zero
\* ------------------------------------------------------------------------
Zero == [neg |-> FALSE, m |-> << >>, e |-> 0]

Dy(neg, m, e) ==
  IF m = << >> THEN Zero
  ELSE LET tz == BTrailingZeros(m)
       IN  [neg |-> neg, m |-> BShr(m, tz), e |-> e + tz]

DFromInt(k) ==
  IF k < 0 THEN Dy(TRUE, BFromNat(-k), 0) ELSE Dy(FALSE, BFromNat(k), 0)

DNeg(x) == IF x = Zero THEN Zero ELSE [x EXCEPT !.neg = ~x.neg]

DAbs(x) == [x EXCEPT !.neg = FALSE]

DAdd(x, y) ==
  LET e == IF x.e < y.e THEN x.e ELSE y.e
      mx == BShl(x.m, x.e - e)
      my == BShl(y.m, y.e - e)
  IN  IF x.neg = y.neg THEN Dy(x.neg, BAdd(mx, my), e)
      ELSE IF BCmp(mx, my) >= 0 THEN Dy(x.neg, BSub(mx, my), e)
      ELSE Dy(y.neg, BSub(my, mx), e)

DSub(x, y) == DAdd(x, DNeg(y))

DMul(x, y) == Dy(x.neg # y.neg, BMul(x.m, y.m), x.e + y.e)

\* x <= y
DLeq(x, y) == LET d == DSub(y, x) IN d = Zero \/ ~d.neg

RECURSIVE DPow(_, _)
DPow(x, k) == IF k = 0 THEN DFromInt(1) ELSE DMul(x, DPow(x, k - 1))

\* ------------------------------------------------------------------------
\* Python float: IEEE-754 binary64, round to nearest, ties to even
\* ------------------------------------------------------------------------
MantBits == 53

IsFloat(x) == BBitLen(x.m) <= MantBits

Round(x) ==
  IF IsFloat(x) THEN x
  ELSE LET k == BBitLen(x.m) - MantBits
           q == BShr(x.m, k)
           rem == BSub(x.m, BShl(q, k))
           c == BCmp(rem, BShl(<< 1 >>, k - 1))
           up == c > 0 \/ (c = 0 /\ BBit(q, 0) = 1)
       IN  Dy(x.neg, IF up THEN BAdd(q, << 1 >>) ELSE q, x.e + k)

FAdd(x, y) == Round(DAdd(x, y))
FSub(x, y) == Round(DSub(x, y))
FMul(x, y) == Round(DMul(x, y))

\* x / y for y # 0: the quotient to MantBits + 3 bits or more, then a sticky
\* bit for a non-zero remainder, then rounded
FDiv(x, y) ==
  IF x = Zero THEN Zero
  ELSE LET want == MantBits + 3 + BBitLen(y.m) - BBitLen(x.m)
           s == IF want > 0 THEN want ELSE 0
           qr == BDivMod(BShl(x.m, s), y.m)
           sticky == IF qr[2] = << >> THEN 0 ELSE 1
       IN  Round(Dy(x.neg # y.neg, BMulSmall(qr[1], 2, sticky),
                    x.e - y.e - s - 1))

\* float ** int with a non-negative exponent: x ** 0 is 1.0 (also 0.0 ** 0)
FPow(x, k) == IF k = 0 THEN DFromInt(1) ELSE Round(DPow(x, k))

\* int -> float
FFromInt(k) == Round(DFromInt(k))

One == DFromInt(1)

\* st.number_input: the decimal t/10 typed into the box, converted to the
\* nearest float
Dec(t) == FDiv(FFromInt(t), FFromInt(10))

\* ------------------------------------------------------------------------
\* The engine: the body of each generator's loop and the sum formulas
\* ------------------------------------------------------------------------
\* variant: the position n used in place of n - 1
app_arithmetic_term_from_n(first_term, common_difference, n) ==
  FAdd(first_term, FMul(FFromInt(n), common_difference))

\* app.py: term = first_term + (n - 1) * common_difference
app_arithmetic_term(first_term, common_difference, n) ==
  FAdd(first_term, FMul(FFromInt(n - 1), common_difference))

\* variant: floor division num_terms // 2
calculate_sum_formula_floor_div(first_term, common_difference, num_terms) ==
  FMul(FFromInt(num_terms \div 2),
       FAdd(FMul(FFromInt(2), first_term),
            FMul(FFromInt(num_terms - 1), common_difference)))

\* app.py: (num_terms / 2) * (2 * first_term + (num_terms - 1) * common_difference)
calculate_sum_formula(first_term, common_difference, num_terms) ==
  FMul(FDiv(FFromInt(num_terms), FFromInt(2)),
       FAdd(FMul(FFromInt(2), first_term),
            FMul(FFromInt(num_terms - 1), common_difference)))

\* variant: the position n used in place of n - 1
arithmetic_term_from_n(first_term, common_difference, n) ==
  FAdd(first_term, FMul(FFromInt(n), common_difference))

\* app (1).py: term = first_term + (n - 1) * common_difference
arithmetic_term(first_term, common_difference, n) ==
  FAdd(first_term, FMul(FFromInt(n - 1), common_difference))

\* variant: num_terms differences in place of num_terms - 1
calculate_arithmetic_sum_n_steps(first_term, common_difference, num_terms) ==
  FMul(FDiv(FFromInt(num_terms), FFromInt(2)),
       FAdd(FMul(FFromInt(2), first_term),
            FMul(FFromInt(num_terms), common_difference)))

calculate_arithmetic_sum(first_term, common_difference, num_terms) ==
  FMul(FDiv(FFromInt(num_terms), FFromInt(2)),
       FAdd(FMul(FFromInt(2), first_term),
            FMul(FFromInt(num_terms - 1), common_difference)))

\* variant: the magnitude of the ratio
geometric_term_abs_ratio(first_term, common_ratio, n) ==
  FMul(first_term, FPow(DAbs(common_ratio), n - 1))

\* variant: the position n used in place of n - 1
geometric_term_from_n(first_term, common_ratio, n) ==
  FMul(first_term, FPow(common_ratio, n))

\* app (1).py: term = first_term * (common_ratio ** (n - 1))
geometric_term(first_term, common_ratio, n) ==
  FMul(first_term, FPow(common_ratio, n - 1))

\* variant: no special case for the ratio 1
geometric_sum_always_divides(common_ratio) == TRUE

\* the branch of calculate_geometric_sum that divides by (1 - common_ratio)
geometric_sum_divides(common_ratio) == common_ratio # One

\* variant: 1 + common_ratio as the divisor
calculate_geometric_sum_plus(first_term, common_ratio, num_terms) ==
  IF ~geometric_sum_divides(common_ratio)
    THEN FMul(FFromInt(num_terms), first_term)
    ELSE FDiv(FMul(first_term, FSub(One, FPow(common_ratio, num_terms))),
              FAdd(One, common_ratio))

calculate_geometric_sum(first_term, common_ratio, num_terms) ==
  IF ~geometric_sum_divides(common_ratio)
    THEN FMul(FFromInt(num_terms), first_term)
    ELSE FDiv(FMul(first_term, FSub(One, FPow(common_ratio, num_terms))),
              FSub(One, common_ratio))

\* variant: only negative counts are rejected
negative_term_count(num_terms) == num_terms < 0

\* if num_terms <= 0: st.error(...); return
invalid_term_count(num_terms) == num_terms <= 0

\* if num_terms <= 20: the "Term Details" table is shown
TableLimit == 20
shows_table(num_terms) == num_terms <= TableLimit

\* ------------------------------------------------------------------------
\* Inputs
\* ------------------------------------------------------------------------
MaxTerms == 4

\* widget values in tenths.  The ratios are dyadic (-2, -1, -0.5, 0, 0.5, 1,
\* 2, 3): their powers are floats, so ** returns them exactly whatever the
\* accuracy of the C library's pow.  First terms and differences include
\* decimals that are not floats (0.1, 0.3, -1.9).
FirstTermTenths == {-19, 0, 1, 3, 20, 30}
DifferenceTenths == {-19, -1, 0, 1, 20}
RatioTenths == {-20, -10, -5, 0, 5, 10, 20, 30}
TermCounts == 0..MaxTerms

Request(script, type, a, s, k) ==
  [script |-> script, sequence_type |-> type, first_term |-> Dec(a),
   second_param |-> Dec(s), num_terms |-> k]

\* a few of them, for the runs that are compared with an earlier run
FewFirstTermTenths == {1, 20}
FewDifferenceTenths == {-19, 20}
FewRatioTenths == {-10, 10, 30}
FewTermCounts == 1..(MaxTerms - 2)

\* ------------------------------------------------------------------------
\* State: one run of main() after another (Streamlit reruns the script on
\* every interaction)
\* ------------------------------------------------------------------------
VARIABLES
  script,         \* which of the two programs is running
  sequence_type,  \* widget values read by main()
  first_term,
  second_param,
  num_terms,
  pc,             \* "idle", "generate", "sum", "render", "done"
  terms,          \* the generator's local list
  n,              \* the generator's loop variable
  sequence,       \* main(): the list returned by the generator
  sum_value,      \* main(): the value returned by the sum function
  calls,          \* engine functions called in this run
  error,          \* st.error was shown
  divided,        \* the sum evaluated the division by (1 - common_ratio)
  table,          \* the "Term Details" table was rendered
  chart,          \* the plot was rendered
  seen,           \* history: at most one earlier run and its results
  between         \* history: a run with other inputs started since then

vars == << script, sequence_type, first_term, second_param, num_terms, pc,
           terms, n, sequence, sum_value, calls, error, divided, table,
           chart, seen, between >>

inputs == << script, sequence_type, first_term, second_param, num_terms >>

\* the run h was started with the widget values in
SameRun(h, in) ==
  << h.script, h.sequence_type, h.first_term, h.second_param, h.num_terms >>
    = in

\* variant: the list of an earlier call is still there
StaleTerms == IF seen = {} THEN << >> ELSE (CHOOSE h \in seen : TRUE).sequence

\* terms = []
FreshTerms == << >>

\* the widgets' defaults: radio index 0, value=1.0, value=2.0, value=10
DefaultTerms == 10

Init ==
  /\ script \in {"app.py", "app (1).py"}
  /\ sequence_type = "Arithmetic"
  /\ first_term = Dec(10)
  /\ second_param = Dec(20)
  /\ num_terms = DefaultTerms
  /\ pc = "idle"
  /\ terms = << >>
  /\ n = 0
  /\ sequence = << >>
  /\ sum_value = Zero
  /\ calls = {}
  /\ error = FALSE
  /\ divided = FALSE
  /\ table = FALSE
  /\ chart = FALSE
  /\ seen = {}
  /\ between = FALSE

\* main() from the top: read the widgets, validate the term count and either
\* show the error and return, or enter the generator (terms = [], n = 1)
MainStart(r) ==
  /\ pc \in {"idle", "done"}
  /\ script' = r.script
  /\ sequence_type' = r.sequence_type
  /\ first_term' = r.first_term
  /\ second_param' = r.second_param
  /\ num_terms' = r.num_terms
  /\ IF invalid_term_count(r.num_terms)
       THEN /\ error' = TRUE
            /\ pc' = "done"
            /\ terms' = << >>
            /\ n' = 0
            /\ calls' = {}
       ELSE /\ error' = FALSE
            /\ pc' = "generate"
            /\ terms' = FreshTerms
            /\ n' = 1
            /\ calls' = {"generate"}
  /\ sequence' = << >>
  /\ sum_value' = Zero
  /\ divided' = FALSE
  /\ table' = FALSE
  /\ chart' = FALSE
  /\ between' = (between \/ \E h \in seen : ~SameRun(h, inputs'))
  /\ UNCHANGED seen

\* one iteration of "for n in range(1, num_terms + 1)"
GenerateStep ==
  /\ pc = "generate"
  /\ n <= num_terms
  /\ terms' = Append(terms,
       IF script = "app.py"
         THEN app_arithmetic_term(first_term, second_param, n)
         ELSE IF sequence_type = "Arithmetic"
           THEN arithmetic_term(first_term, second_param, n)
           ELSE geometric_term(first_term, second_param, n))
  /\ n' = n + 1
  /\ UNCHANGED << inputs, pc, sequence, sum_value, calls, error, divided,
                  table, chart, seen, between >>

\* return terms: the generator's frame is gone, main() holds the list
GenerateReturn ==
  /\ pc = "generate"
  /\ n > num_terms
  /\ sequence' = terms
  /\ terms' = << >>
  /\ n' = 0
  /\ pc' = "sum"
  /\ UNCHANGED << inputs, sum_value, calls, error, divided, table, chart,
                  seen, between >>

ComputeSum ==
  /\ pc = "sum"
  /\ sum_value' =
       IF script = "app.py"
         THEN calculate_sum_formula(first_term, second_param, num_terms)
         ELSE IF sequence_type = "Arithmetic"
           THEN calculate_arithmetic_sum(first_term, second_param, num_terms)
           ELSE calculate_geometric_sum(first_term, second_param, num_terms)
  /\ divided' = (script = "app (1).py" /\ sequence_type = "Geometric"
                 /\ geometric_sum_divides(second_param))
  /\ calls' = calls \cup {"sum"}
  /\ pc' = "render"
  /\ UNCHANGED << inputs, terms, n, sequence, error, table, chart, seen,
                  between >>

\* the rest of main(): formulas, terms, table, plot, metrics
Render ==
  /\ pc = "render"
  /\ table' = shows_table(num_terms)
  /\ chart' = TRUE
  /\ pc' = "done"
  /\ UNCHANGED << inputs, terms, n, sequence, sum_value, calls, error,
                  divided, seen, between >>

\* history: remember this run and what it produced
Remember ==
  /\ pc = "done"
  /\ ~error
  /\ seen' = {[script |-> script, sequence_type |-> sequence_type,
               first_term |-> first_term, second_param |-> second_param,
               num_terms |-> num_terms, sequence |-> sequence,
               sum_value |-> sum_value]}
  /\ between' = FALSE
  /\ UNCHANGED << inputs, pc, terms, n, sequence, sum_value, calls, error,
                  divided, table, chart >>

\* the widget values: app.py has no sequence type, app (1).py reads the
\* difference or the ratio according to the radio button
Main ==
  \/ \E sc \in {"app.py", "app (1).py"}, a \in FirstTermTenths,
         d \in DifferenceTenths, k \in TermCounts :
       MainStart(Request(sc, "Arithmetic", a, d, k))
  \/ \E a \in FirstTermTenths, r \in RatioTenths, k \in TermCounts :
       MainStart(Request("app (1).py", "Geometric", a, r, k))

Next == Main \/ GenerateStep \/ GenerateReturn \/ ComputeSum \/ Render

Spec == Init /\ [][Next]_vars

MainFew ==
  \/ \E sc \in {"app.py", "app (1).py"}, a \in FewFirstTermTenths,
         d \in FewDifferenceTenths, k \in FewTermCounts :
       MainStart(Request(sc, "Arithmetic", a, d, k))
  \/ \E a \in FewFirstTermTenths, r \in FewRatioTenths, k \in FewTermCounts :
       MainStart(Request("app (1).py", "Geometric", a, r, k))

NextHistory ==
  MainFew \/ GenerateStep \/ GenerateReturn \/ ComputeSum \/ Render \/ Remember

SpecHistory == Init /\ [][NextHistory]_vars

\* ------------------------------------------------------------------------
\* Properties
\* ------------------------------------------------------------------------
\* the generator has returned / the sum function has returned in this run
Generated == pc \in {"sum", "render"} \/ (pc = "done" /\ ~error)
Summed == pc = "render" \/ (pc = "done" /\ ~error)

Arithmetic == sequence_type = "Arithmetic"
Geometric == sequence_type = "Geometric"

\* the sum of a list of floats as a real number, without any rounding
RECURSIVE ExactSum(_)
ExactSum(seq) ==
  IF seq = << >> THEN Zero ELSE DAdd(Head(seq), ExactSum(Tail(seq)))

\* the sum of the magnitudes, without any rounding
RECURSIVE ExactSumAbs(_)
ExactSumAbs(seq) ==
  IF seq = << >> THEN Zero ELSE DAdd(DAbs(Head(seq)), ExactSumAbs(Tail(seq)))

\* adding up the elements one after the other in float arithmetic
RECURSIVE FoldFrom(_, _)
FoldFrom(acc, seq) ==
  IF seq = << >> THEN acc ELSE FoldFrom(FAdd(acc, Head(seq)), Tail(seq))

DirectFold(seq) == FoldFrom(Zero, seq)

\* an integer-valued float
IsInteger(x) == x.e >= 0

\* 2^-(MantBits - 3): eight units of relative rounding error
Tolerance == [neg |-> FALSE, m |-> << 1 >>, e |-> 3 - MantBits]

\* C1: an arithmetic run returns exactly num_terms elements and the element at
\* 0-indexed position i is first_term + i * step, in position order; while the
\* generator runs, the list holds the first n - 1 of them in that order.
C1_ArithmeticTerms ==
  Arithmetic =>
    /\ Generated =>
         /\ Len(sequence) = num_terms
         /\ \A i \in 0..(num_terms - 1) :
              sequence[i + 1] = FAdd(first_term, FMul(FFromInt(i), second_param))
    /\ pc = "generate" =>
         /\ Len(terms) = n - 1
         /\ \A i \in 0..(n - 2) :
              terms[i + 1] = FAdd(first_term, FMul(FFromInt(i), second_param))

C1_Witness ==
  /\ Arithmetic /\ Generated /\ num_terms >= 3
  /\ second_param = Dec(-19) /\ first_term = Dec(1)
  /\ sequence[3] = FAdd(first_term, FMul(FFromInt(2), second_param))

\* C2 as claimed: the closed-form arithmetic sum equals the exact sum of the
\* generated elements (the sum as a real number, or that number rounded to
\* the nearest float, or the elements added up in float arithmetic).
C2_SumIsExactSum ==
  (Arithmetic /\ Summed) =>
    sum_value \in {ExactSum(sequence), Round(ExactSum(sequence)),
                   DirectFold(sequence)}

\* C2 amended: the closed-form arithmetic sum agrees with the exact sum of the
\* generated elements to within rounding error, at most
\* 2^-50 * num_terms * (|first_term| + (num_terms - 1) * |step|), and the two
\* are equal when first_term and step are integers.
C2_SumWithinRounding ==
  (Arithmetic /\ Summed) =>
    /\ DLeq(DAbs(DSub(sum_value, ExactSum(sequence))),
            DMul(Tolerance,
                 DMul(DFromInt(num_terms),
                      DAdd(DAbs(first_term),
                           DMul(DFromInt(num_terms - 1), DAbs(second_param))))))
    /\ (IsInteger(first_term) /\ IsInteger(second_param)) =>
         sum_value = ExactSum(sequence)

C2_Witness ==
  /\ Arithmetic /\ Summed /\ num_terms >= 3
  /\ sum_value # ExactSum(sequence)
  /\ sum_value # Round(ExactSum(sequence))
  /\ sum_value # DirectFold(sequence)

\* C3: a geometric run returns exactly num_terms elements and the element at
\* 1-indexed position k is first_term * step^(k - 1); with step = 0 the first
\* element is first_term and every later one is 0.
C3_GeometricTerms ==
  (Geometric /\ Generated) =>
    /\ Len(sequence) = num_terms
    /\ \A k \in 1..num_terms :
         sequence[k] = FMul(first_term, FPow(second_param, k - 1))
    /\ second_param = Zero =>
         /\ sequence[1] = first_term
         /\ \A k \in 2..num_terms : sequence[k] = Zero

C3_Witness ==
  /\ Geometric /\ Generated /\ num_terms >= 3
  /\ second_param = Zero /\ first_term = Dec(-19)
  /\ sequence[1] = Dec(-19) /\ sequence[3] = Zero

\* the closed form first_term * (1 - step^num_terms) / (1 - step)
GeometricClosedForm ==
  FDiv(FMul(first_term, FSub(One, FPow(second_param, num_terms))),
       FSub(One, second_param))

\* C4 as claimed: for step # 1 the geometric sum is the closed form and equals
\* the sum obtained by adding up the generated elements (in float arithmetic,
\* or exactly and then rounded to the nearest float).
C4_SumIsFold ==
  (Geometric /\ Summed /\ second_param # One) =>
    /\ sum_value = GeometricClosedForm
    /\ sum_value \in {DirectFold(sequence), Round(ExactSum(sequence))}

\* C4 amended: for step # 1 the geometric sum is the closed form; it agrees
\* with the sum obtained by adding up the generated elements to within
\* rounding error, |sum - fold| * |1 - step| <=
\* 2^-50 * (num_terms * sum|element| * |1 - step|
\*          + |first_term| * (1 + |step|^num_terms)),
\* and the two are equal when first_term and step are integers.
C4_SumWithinRounding ==
  (Geometric /\ Summed /\ second_param # One) =>
    /\ sum_value = GeometricClosedForm
    /\ DLeq(DMul(DAbs(DSub(sum_value, DirectFold(sequence))),
                 DAbs(DSub(One, second_param))),
            DMul(Tolerance,
                 DAdd(DMul(DMul(DFromInt(num_terms), ExactSumAbs(sequence)),
                           DAbs(DSub(One, second_param))),
                      DMul(DAbs(first_term),
                           DAdd(One, DPow(DAbs(second_param), num_terms))))))
    /\ (IsInteger(first_term) /\ IsInteger(second_param)) =>
         sum_value = DirectFold(sequence)

C4_Witness ==
  /\ Geometric /\ Summed /\ second_param # One /\ num_terms >= 3
  /\ sum_value = GeometricClosedForm
  /\ sum_value # DirectFold(sequence)
  /\ sum_value # Round(ExactSum(sequence))

\* C5: a geometric run with step exactly 1 generates first_term at every
\* position, its sum is num_terms * first_term, and the division by
\* (1 - step) is never evaluated.
C5_UnitRatio ==
  (Geometric /\ second_param = One) =>
    /\ Generated => \A k \in 1..Len(sequence) : sequence[k] = first_term
    /\ pc = "generate" => \A k \in 1..Len(terms) : terms[k] = first_term
    /\ Summed => sum_value = FMul(FFromInt(num_terms), first_term)
    /\ ~divided

C5_Witness ==
  /\ Geometric /\ second_param = One /\ Summed /\ num_terms >= 3
  /\ first_term = Dec(3) /\ sequence[3] = Dec(3) /\ ~divided
  /\ sum_value = FMul(FFromInt(num_terms), Dec(3))

\* C6: with num_terms = 0 the run shows the validation error and stops: no
\* engine function is called, no sequence or sum is produced and neither the
\* table nor the chart is rendered.
C6_ZeroTermsRejected ==
  (pc # "idle" /\ num_terms = 0) =>
    /\ error
    /\ pc = "done"
    /\ calls = {}
    /\ sequence = << >>
    /\ terms = << >>
    /\ ~Generated /\ ~Summed
    /\ ~table /\ ~chart

C6_Witness ==
  /\ pc = "done" /\ num_terms = 0 /\ error /\ Geometric /\ calls = {}

\* C7 as claimed: with num_terms = 1 the sequence is [first_term] and the sum
\* equals first_term, for both kinds and every step.
C7_SingleTermSum ==
  (Summed /\ num_terms = 1) =>
    /\ sequence = << first_term >>
    /\ sum_value = first_term

\* C7 amended: with num_terms = 1 the sequence is [first_term] for both kinds;
\* the sum equals first_term for an arithmetic sequence and for a geometric
\* one with step 0 or 1, and for any other geometric step it is the rounded
\* closed form first_term * (1 - step) / (1 - step), within 2^-50 * |first_term|
\* of first_term.
C7_SingleTermSumRounded ==
  (Summed /\ num_terms = 1) =>
    /\ sequence = << first_term >>
    /\ (Arithmetic \/ second_param \in {Zero, One}) => sum_value = first_term
    /\ DLeq(DAbs(DSub(sum_value, first_term)),
            DMul(Tolerance, DAbs(first_term)))

C7_Witness ==
  /\ Summed /\ num_terms = 1 /\ Geometric
  /\ sequence = << first_term >> /\ sum_value # first_term

\* C8: a run whose inputs are those of an earlier run of the same program
\* returns the same sequence and the same sum, whatever ran in between.
C8_Deterministic ==
  \A h \in seen :
    SameRun(h, inputs) =>
      /\ Generated => sequence = h.sequence
      /\ Summed => sum_value = h.sum_value

C8_Witness ==
  /\ between /\ pc = "done" /\ ~error
  /\ \E h \in seen :
       SameRun(h, inputs) /\ sequence = h.sequence /\ sum_value = h.sum_value

\* C9: a geometric run with a negative step and a non-zero first_term returns
\* terms of alternating sign, the odd positions having the sign of
\* first_term; first_term = 2, step = -1, num_terms = 4 gives [2, -2, 2, -2]
\* and the sum 0.
C9_AlternatingSign ==
  (Geometric /\ Generated /\ second_param.neg /\ first_term # Zero) =>
    /\ \A k \in 1..num_terms :
         /\ sequence[k] # Zero
         /\ sequence[k].neg = (IF k % 2 = 1 THEN first_term.neg
                                            ELSE ~first_term.neg)
    /\ \A k \in 1..(num_terms - 1) : sequence[k].neg # sequence[k + 1].neg
    /\ (first_term = DFromInt(2) /\ second_param = DFromInt(-1)
        /\ num_terms = 4) =>
         /\ sequence = << DFromInt(2), DFromInt(-2), DFromInt(2), DFromInt(-2) >>
         /\ Summed => sum_value = Zero

C9_Witness ==
  /\ Geometric /\ Summed /\ first_term = DFromInt(2)
  /\ second_param = DFromInt(-1) /\ num_terms = 4
  /\ sequence = << DFromInt(2), DFromInt(-2), DFromInt(2), DFromInt(-2) >>
  /\ sum_value = Zero

\* C10: an arithmetic run of app.py and an arithmetic run of app (1).py with
\* the same first_term, step and num_terms return the same sequence and the
\* same sum.
C10_VariantsAgree ==
  \A h \in seen :
    (/\ h.script # script
     /\ h.sequence_type = "Arithmetic" /\ Arithmetic
     /\ h.first_term = first_term /\ h.second_param = second_param
     /\ h.num_terms = num_terms) =>
      /\ Generated => sequence = h.sequence
      /\ Summed => sum_value = h.sum_value

C10_Witness ==
  /\ pc = "done" /\ ~error /\ script = "app (1).py" /\ Arithmetic
  /\ num_terms >= 2 /\ second_param = Dec(-19)
  /\ \E h \in seen :
       /\ h.script = "app.py" /\ h.first_term = first_term
       /\ h.second_param = second_param /\ h.num_terms = num_terms
       /\ h.sequence = sequence /\ h.sum_value = sum_value

====
